---- MODULE Spec2Model ----
(***************************************************************************)
(* Model of the rolling time window of stefan-brus/rolling-time:           *)
(* the class RollingTime (src/rollingtime.js), the command line program    *)
(* that feeds it line by line (src/main.js, main / parseObservation /      *)
(* printRtwState) and the unit test testRollWindow (src/main.js).          *)
(*                                                                         *)
(* JavaScript numbers are modelled as integers with exact arithmetic:      *)
(* timestamps, costs and TAU range over small integer sets, and            *)
(* Number.MAX_VALUE is an integer above every cost of the model.           *)
(***************************************************************************)
EXTENDS Integers, Sequences, FiniteSets, TLC

(* ------------------------------ bounds --------------------------------- *)

\* The number of put calls (library use) or of input lines (main) explored.
MaxPuts == 3

\* Timestamps range over 0..MaxTime, in any order.
MaxTime == 3

\* Window sizes given to the constructor range over -1..MaxTau.
MaxTau == 2

\* The number of put calls explored with timestamps out of order.
MaxShuffle == 5

\* The number of put calls explored with strictly increasing timestamps.
MaxGenerate == 5

\* Strictly increasing timestamps grow by 1..MaxStep from one put to the next.
MaxStep == 2

Timestamps == 0 .. MaxTime

Costs == {-1, 0, 2}

Taus == -1 .. MaxTau

(* ------------------------- program constants --------------------------- *)

\* Number.MAX_VALUE, the initial and reset value of min.
MAX_VALUE == 1000000

\* main: `args.tau == null ? 60 : args.tau`.
DefaultTau == 60

\* testRollWindow: `const TAU = 10`.
RollTau == 10

VARIABLES
    pc,        \* "start", "lib" (a caller uses the class directly),
               \* "reading" (main reads lines), "usage", "crashed"
    rtw,       \* the RollingTime instance: TAU, observations, sum, min, max
    tauArg,    \* the argument the constructor was called with
    hist,      \* every (timestamp, cost) given to put so far, in call order
    pre,       \* the instance as it was when the latest put was called
    curLine,   \* main's line counter
    out        \* what main has printed so far, in order

vars == <<pc, rtw, tauArg, hist, pre, curLine, out>>

(* ------------------------- src/rollingtime.js -------------------------- *)

\* Math.min and Math.max on two numbers.
MathMin(a, b) == IF a < b THEN a ELSE b

MathMax(a, b) == IF a > b THEN a ELSE b

\* An observation object {timestamp, cost}.
Observation(timestamp, cost) == [timestamp |-> timestamp, cost |-> cost]

\* The constructor with min started at 0.0, like max.
RollingTime_minZero(TAU) ==
    [TAU |-> TAU, observations |-> <<>>, sum |-> 0, min |-> 0, max |-> 0]

\* constructor(TAU)
RollingTime(TAU) ==
    [TAU |-> TAU, observations |-> <<>>, sum |-> 0, min |-> MAX_VALUE, max |-> 0]

\* No push before the comparison: the buffer is read as put found it.
push_skipped(this, timestamp, cost) == this

\* unshift for push: the observation is put at the front.
push_unshift(this, timestamp, cost) ==
    [this EXCEPT !.observations = <<Observation(timestamp, cost)>> \o @]

\* this.observations.push({timestamp, cost})
push(this, timestamp, cost) ==
    [this EXCEPT !.observations = Append(@, Observation(timestamp, cost))]

\* The test of the fast path against the newest observation, not the first.
withinWindow_newest(this, timestamp) ==
    timestamp - this.TAU < this.observations[Len(this.observations)].timestamp

\* The test of the fast path with <= for <.
withinWindow_inclusive(this, timestamp) ==
    timestamp - this.TAU <= this.observations[1].timestamp

\* The test of the fast path, evaluated after the push.
withinWindow(this, timestamp) ==
    timestamp - this.TAU < this.observations[1].timestamp

\* The update with Math.max written for Math.min.
accumulate_maxForMin(this, cost) ==
    [this EXCEPT !.sum = @ + cost,
                 !.min = MathMax(@, cost),
                 !.max = MathMax(@, cost)]

\* sum += cost; min = Math.min(min, cost); max = Math.max(max, cost)
accumulate(this, cost) ==
    [this EXCEPT !.sum = @ + cost,
                 !.min = MathMin(@, cost),
                 !.max = MathMax(@, cost)]

\* The reset without its first assignment: sum is carried over.
reset_keepSum(this) == [this EXCEPT !.min = MAX_VALUE, !.max = 0]

\* The reset that opens the recalculation.
reset(this) == [this EXCEPT !.sum = 0, !.min = MAX_VALUE, !.max = 0]

\* The callback's test without TAU: everything up to now has expired.
expired_noTau(this, timestamp, obs) == timestamp >= obs.timestamp

\* The callback's test with > for >=.
expired_strict(this, timestamp, obs) == timestamp - this.TAU > obs.timestamp

\* The forEach callback's test: the observation has left the window.
expired(this, timestamp, obs) == timestamp - this.TAU >= obs.timestamp

\* this.observations.forEach(obs => ...), from index i on: st.this is the
\* instance, st.newStartIndex the counter of the expired observations.
RECURSIVE forEach(_, _, _)
forEach(st, timestamp, i) ==
    IF i > Len(st.this.observations)
    THEN st
    ELSE LET obs == st.this.observations[i]
         IN  IF expired(st.this, timestamp, obs)
             THEN forEach([st EXCEPT !.newStartIndex = @ + 1], timestamp, i + 1)
             ELSE forEach([st EXCEPT !.this = accumulate(@, obs.cost)],
                          timestamp, i + 1)

\* slice one element too far.
slice_offByOne(array, start) == SubSeq(array, start + 2, Len(array))

\* Array.prototype.slice(start) for 0 <= start.
slice(array, start) == SubSeq(array, start + 1, Len(array))

\* this.observations[0] is undefined: reading its timestamp raises a
\* TypeError.
firstMissing(this) == this.observations = <<>>

\* put(timestamp, cost) raises an error (at the read of observations[0],
\* the one place of put that can).
putThrows(this, timestamp, cost) == firstMissing(push(this, timestamp, cost))

\* put(timestamp, cost): the instance after the call (as the error leaves
\* it, when the call raises one).
put(this, timestamp, cost) ==
    LET pushed == push(this, timestamp, cost)
    IN  IF firstMissing(pushed)
        THEN pushed
        ELSE IF withinWindow(pushed, timestamp)
        THEN accumulate(pushed, cost)
        ELSE LET st == forEach([this |-> reset(pushed), newStartIndex |-> 0],
                               timestamp, 1)
             IN  [st.this EXCEPT
                    !.observations = slice(@, st.newStartIndex)]

(* ----------------------------- src/main.js ---------------------------- *)

\* A line is a sequence of one-character strings; TAB is the separator.
TAB == "\t"

\* null and a present value of an optional command line argument.
Null == <<>>

Some(v) == <<v>>

\* line.split('\t'), from index i on: fields are the fields closed so far,
\* cur the field being read.
RECURSIVE splitFrom(_, _, _, _)
splitFrom(line, i, fields, cur) ==
    IF i > Len(line)
    THEN Append(fields, cur)
    ELSE IF line[i] = TAB
         THEN splitFrom(line, i + 1, Append(fields, cur), <<>>)
         ELSE splitFrom(line, i + 1, fields, Append(cur, line[i]))

split(line) == splitFrom(line, 1, <<>>, <<>>)

Digits == <<"0", "1", "2", "3", "4", "5", "6", "7", "8", "9">>

IsDigit(ch) == \E d \in 1 .. 10 : Digits[d] = ch

DigitValue(ch) == (CHOOSE d \in 1 .. 10 : Digits[d] = ch) - 1

\* The value of a string of decimal digits.
RECURSIVE decimal(_, _, _)
decimal(s, i, acc) ==
    IF i > Len(s) THEN acc ELSE decimal(s, i + 1, 10 * acc + DigitValue(s[i]))

AllDigits(s, from) == \A i \in from .. Len(s) : IsDigit(s[i])

NaN == [nan |-> TRUE, value |-> 0]

Num(v) == [nan |-> FALSE, value |-> v]

\* Number(string) on strings of digits, "-" and letters: the empty string
\* is 0, an optionally signed decimal numeral is its value, the rest NaN.
Number(s) ==
    IF s = <<>> THEN Num(0)
    ELSE IF s[1] = "-"
         THEN IF Len(s) >= 2 /\ AllDigits(s, 2)
              THEN Num(0 - decimal(s, 2, 0))
              ELSE NaN
         ELSE IF AllDigits(s, 1) THEN Num(decimal(s, 1, 0)) ELSE NaN

isNaN(n) == n.nan

\* parseObservation without the check of the cost: put is called with
\* whatever Number made of the second field.
parseObservation_noCostCheck(line, w) ==
    LET numPair == split(line)
    IN  IF Len(numPair) /= 2
        THEN [err |-> "Expected format", rtw |-> w,
              called |-> FALSE, threw |-> FALSE]
        ELSE LET timestamp == Number(numPair[1])
                 cost == Number(numPair[2])
             IN  IF isNaN(timestamp)
                 THEN [err |-> "Timestamp expected to be a number",
                       rtw |-> w, called |-> FALSE, threw |-> FALSE]
                 ELSE [err |-> "null",
                       rtw |-> put(w, timestamp.value, cost.value),
                       called |-> TRUE,
                       threw |-> putThrows(w, timestamp.value, cost.value)]

\* parseObservation(line, rtw): the returned error message ("null" for
\* null), the window after the call, whether put was called and whether
\* that call raised an error (which parseObservation does not catch).
parseObservation(line, w) ==
    LET numPair == split(line)
    IN  IF Len(numPair) /= 2
        THEN [err |-> "Expected format", rtw |-> w,
              called |-> FALSE, threw |-> FALSE]
        ELSE LET timestamp == Number(numPair[1])
                 cost == Number(numPair[2])
             IN  IF isNaN(timestamp)
                 THEN [err |-> "Timestamp expected to be a number",
                       rtw |-> w, called |-> FALSE, threw |-> FALSE]
                 ELSE IF isNaN(cost)
                      THEN [err |-> "Cost expected to be a number",
                            rtw |-> w, called |-> FALSE, threw |-> FALSE]
                      ELSE [err |-> "null",
                            rtw |-> put(w, timestamp.value, cost.value),
                            called |-> TRUE,
                            threw |-> putThrows(w, timestamp.value, cost.value)]

\* The (timestamp, cost) that parseObservation hands to put for a line it
\* accepts.
parsed(line) ==
    LET numPair == split(line)
    IN  Observation(Number(numPair[1]).value, Number(numPair[2]).value)

\* printRtwState(rtw): the printed row, or the TypeError raised by reading
\* a property of undefined when observations is empty.
printRtwState(w) ==
    IF Len(w.observations) = 0
    THEN [threw |-> TRUE, row |-> [kind |-> "row"]]
    ELSE LET lastObservation == w.observations[Len(w.observations)]
         IN  [threw |-> FALSE,
              row |-> [kind |-> "row",
                       timestamp |-> lastObservation.timestamp,
                       cost |-> lastObservation.cost,
                       count |-> Len(w.observations),
                       sum |-> w.sum, min |-> w.min, max |-> w.max]]

(* ------------------------------ inputs --------------------------------- *)

\* The decimal numeral of an integer of one digit.
numeral(n) == IF n < 0 THEN <<"-", Digits[1 - n]>> ELSE <<Digits[n + 1]>>

GoodLines ==
    {numeral(t) \o <<TAB>> \o numeral(c) : t \in Timestamps, c \in Costs}

\* Lines that are not `${TIMESTAMP}\t${COST}` with two numerals.
OddLines ==
    { <<>>, <<"1", TAB, "x">>, <<"x", TAB, "1">>, <<"1", TAB, "-">>,
      <<"1", TAB, "1", TAB, "1">>, <<TAB, "2">> }

Lines == GoodLines \cup OddLines

\* yargs' argv: tau and input, each absent (null) or present.
Args == [tau : {Null} \cup {Some(t) : t \in Taus}, input : {Null, Some("path")}]

\* The puts of testRollWindow, in order, and the states it asserts
\* (observations.length, sum, min, max).
testRollWindow ==
    << Observation(1, 1), Observation(5, 5), Observation(10, 10),
       Observation(15, 15), Observation(30, 30) >>

checkRtw ==
    << <<1, 1, 1, 1>>, <<2, 6, 1, 5>>, <<3, 16, 1, 10>>,
       <<2, 25, 10, 15>>, <<1, 30, 30, 30>> >>

(* --------------------------- state machine ----------------------------- *)

\* No instance has been constructed yet.
NoWindow == [TAU |-> 0, observations |-> <<>>, sum |-> 0, min |-> 0, max |-> 0]

Init ==
    /\ pc = "start"
    /\ rtw = NoWindow
    /\ tauArg = 0
    /\ hist = <<>>
    /\ pre = NoWindow
    /\ curLine = 0
    /\ out = <<>>

\* A caller (the unit tests) constructs an instance: new RollingTime(tau).
New(tau) ==
    /\ pc = "start"
    /\ pc' = "lib"
    /\ rtw' = RollingTime(tau)
    /\ tauArg' = tau
    /\ UNCHANGED <<hist, pre, curLine, out>>

\* The caller calls rtw.put(timestamp, cost).
Call(timestamp, cost) ==
    /\ pc = "lib"
    /\ rtw' = put(rtw, timestamp, cost)
    /\ hist' = Append(hist, Observation(timestamp, cost))
    /\ pre' = rtw
    /\ pc' = IF putThrows(rtw, timestamp, cost) THEN "crashed" ELSE pc
    /\ UNCHANGED <<tauArg, curLine, out>>

Put(timestamp, cost) ==
    /\ Len(hist) < MaxPuts
    /\ Call(timestamp, cost)

\* main(args), up to the registration of the line handler.
Main(args) ==
    /\ pc = "start"
    /\ LET tau == IF args.tau = Null THEN DefaultTau ELSE args.tau[1]
       IN  IF args.input = Null
           THEN /\ pc' = "usage"
                /\ out' = Append(out, [kind |-> "usage"])
                /\ UNCHANGED <<rtw, tauArg>>
           ELSE /\ pc' = "reading"
                /\ rtw' = RollingTime(tau)
                /\ tauArg' = tau
                /\ out' = Append(out, [kind |-> "header"])
    /\ UNCHANGED <<hist, pre, curLine>>

\* The handler of readline's 'line' event.
OnLine(line) ==
    /\ pc = "reading"
    /\ curLine < MaxPuts
    /\ curLine' = curLine + 1
    /\ LET res == parseObservation(line, rtw)
       IN  /\ rtw' = res.rtw
           /\ hist' = IF res.called THEN Append(hist, parsed(line)) ELSE hist
           /\ pre' = IF res.called THEN rtw ELSE pre
           /\ IF res.threw
              THEN /\ pc' = "crashed"
                   /\ out' = out
              ELSE IF res.err = "null"
              THEN LET printed == printRtwState(res.rtw)
                   IN  IF printed.threw
                       THEN /\ pc' = "crashed"
                            /\ out' = out
                       ELSE /\ pc' = pc
                            /\ out' = Append(out, printed.row)
              ELSE /\ pc' = pc
                   /\ out' = Append(out, [kind |-> "error", line |-> curLine',
                                          err |-> res.err])
    /\ UNCHANGED tauArg

Next ==
    \/ \E tau \in Taus : New(tau)
    \/ \E timestamp \in Timestamps, cost \in Costs : Put(timestamp, cost)
    \/ \E args \in Args : Main(args)
    \/ \E line \in Lines : OnLine(line)

Spec == Init /\ [][Next]_vars

\* testRollWindow's window, and its puts in any order.
InitRoll ==
    /\ pc = "lib"
    /\ rtw = RollingTime(RollTau)
    /\ tauArg = RollTau
    /\ hist = <<>>
    /\ pre = NoWindow
    /\ curLine = 0
    /\ out = <<>>

RollPut(obs) ==
    /\ Len(hist) < Len(testRollWindow)
    /\ Call(obs.timestamp, obs.cost)

NextRoll == \E i \in 1 .. Len(testRollWindow) : RollPut(testRollWindow[i])

SpecRoll == InitRoll /\ [][NextRoll]_vars

\* A caller that does not keep the timestamps in order: a window of size 1
\* or 2 and up to MaxShuffle puts with timestamps 1..3 in any order.
ShuffleTaus == {1, 2}

ShuffleTimes == {1, 2, 3}

ShuffleCosts == {-1, 2}

InitShuffle ==
    /\ pc = "lib"
    /\ rtw \in {RollingTime(tau) : tau \in ShuffleTaus}
    /\ tauArg = rtw.TAU
    /\ hist = <<>>
    /\ pre = NoWindow
    /\ curLine = 0
    /\ out = <<>>

ShufflePut(timestamp, cost) ==
    /\ Len(hist) < MaxShuffle
    /\ Call(timestamp, cost)

NextShuffle ==
    \E timestamp \in ShuffleTimes, cost \in ShuffleCosts :
        ShufflePut(timestamp, cost)

SpecShuffle == InitShuffle /\ [][NextShuffle]_vars

\* A caller that puts strictly increasing integer timestamps, starting above
\* 0, into a window of integer size 1..MaxTau + 1: each timestamp is the
\* previous one plus 1..MaxStep. The memory test's generate puts such
\* timestamps (previous_timestamp + 1 up to previous_timestamp + TAU - 1).
IncreasingTaus == 1 .. MaxTau + 1

InitIncreasing ==
    /\ pc = "lib"
    /\ rtw \in {RollingTime(tau) : tau \in IncreasingTaus}
    /\ tauArg = rtw.TAU
    /\ hist = <<>>
    /\ pre = NoWindow
    /\ curLine = 0
    /\ out = <<>>

IncreasingPut(step, cost) ==
    /\ Len(hist) < MaxGenerate
    /\ LET previous_timestamp ==
               IF hist = <<>> THEN 0 ELSE hist[Len(hist)].timestamp
       IN  Call(previous_timestamp + step, cost)

NextIncreasing ==
    \E step \in 1 .. MaxStep, cost \in ShuffleCosts : IncreasingPut(step, cost)

SpecIncreasing == InitIncreasing /\ [][NextIncreasing]_vars

(* --------------------------- claim vocabulary -------------------------- *)

\* The observation given to the latest put.
Latest == hist[Len(hist)]

\* The timestamps were put in non-decreasing order.
Sorted(h) == \A i \in 1 .. Len(h) - 1 : h[i].timestamp <= h[i + 1].timestamp

\* Each timestamp exceeds the one before it by more than tau.
FarApart(h, tau) ==
    \A i \in 1 .. Len(h) - 1 : h[i + 1].timestamp - h[i].timestamp > tau

\* An instance exists (constructed by a caller or by main).
Constructed == pc \in {"lib", "reading", "crashed"}

\* The mathematical sum, least and greatest cost of a sequence of
\* observations (least and greatest of a non-empty one).
RECURSIVE SumCost(_)
SumCost(obs) ==
    IF obs = <<>> THEN 0 ELSE obs[1].cost + SumCost(Tail(obs))

CostsOf(obs) == {obs[i].cost : i \in DOMAIN obs}

LeastCost(obs) == CHOOSE c \in CostsOf(obs) : \A d \in CostsOf(obs) : c <= d

GreatestCost(obs) == CHOOSE c \in CostsOf(obs) : \A d \in CostsOf(obs) : c >= d

\* How many observations of a sequence carry the timestamp ts.
CountAt(obs, ts) == Cardinality({i \in DOMAIN obs : obs[i].timestamp = ts})

\* The sum, min and max a window holds when it has accumulated exactly the
\* observations obs since its last reset.
RECURSIVE Folded(_, _)
Folded(w, obs) ==
    IF obs = <<>> THEN w ELSE Folded(accumulate(w, obs[1].cost), Tail(obs))

OnlyOver(obs) ==
    LET w == Folded(reset(rtw), obs)
    IN  rtw.sum = w.sum /\ rtw.min = w.min /\ rtw.max = w.max

(* -------------------------------- claims ------------------------------- *)

\* C1: for TAU > 0 and non-decreasing timestamps, after each put sum is the
\* sum of the costs in observations, min their least and max their greatest,
\* for any costs, zero and negative ones included.
C1_AggregatesExact ==
    (Constructed /\ rtw.TAU > 0 /\ Sorted(hist) /\ Len(hist) >= 1) =>
        /\ rtw.observations /= <<>>
        /\ rtw.sum = SumCost(rtw.observations)
        /\ rtw.min = LeastCost(rtw.observations)
        /\ rtw.max = GreatestCost(rtw.observations)

\* C2: for TAU > 0 and non-decreasing timestamps, after every put(t, c) each
\* element o of observations satisfies t - o.timestamp < TAU.
C2_WindowMembership ==
    (Constructed /\ rtw.TAU > 0 /\ Sorted(hist) /\ Len(hist) >= 1) =>
        \A i \in DOMAIN rtw.observations :
            Latest.timestamp - rtw.observations[i].timestamp < rtw.TAU

\* C2 witness: a put has evicted an observation and kept an older one
\* beside the new one.
C2_Witness ==
    /\ Constructed /\ rtw.TAU > 0 /\ Sorted(hist) /\ Len(hist) >= 1
    /\ Len(rtw.observations) < Len(pre.observations) + 1
    /\ Len(rtw.observations) >= 2

\* C3: for TAU > 0 and non-decreasing timestamps, after put(t, c) an
\* observation of age exactly TAU (t - o.timestamp = TAU) is absent from
\* observations and sum, min and max are accumulated over the retained
\* observations only; every observation of age TAU - 1 (one step inside the
\* window) is still present.
C3_Boundary ==
    (Constructed /\ rtw.TAU > 0 /\ Sorted(hist) /\ Len(hist) >= 1) =>
        LET t == Latest.timestamp
            before == Append(pre.observations, Latest)
        IN  /\ (CountAt(before, t - rtw.TAU) > 0 =>
                   /\ CountAt(rtw.observations, t - rtw.TAU) = 0
                   /\ OnlyOver(rtw.observations))
            /\ CountAt(rtw.observations, t - rtw.TAU + 1)
                   = CountAt(before, t - rtw.TAU + 1)

\* C3 witness: the put found one observation of age TAU and one of age
\* TAU - 1 in the buffer, and the latter is kept next to the new one.
C3_Witness ==
    /\ Constructed /\ rtw.TAU > 1 /\ Sorted(hist) /\ Len(hist) >= 1
    /\ CountAt(pre.observations, Latest.timestamp - rtw.TAU) = 1
    /\ CountAt(pre.observations, Latest.timestamp - rtw.TAU + 1) = 1
    /\ Len(rtw.observations) = 2
    /\ rtw.observations[1].timestamp = Latest.timestamp - rtw.TAU + 1

\* C4: for TAU > 0, a fresh window after exactly one put(t, v) has
\* observations.length = 1 and sum = min = max = v, for every v, v <= 0
\* included.
C4_SinglePut ==
    (Constructed /\ rtw.TAU > 0 /\ Len(hist) = 1) =>
        /\ Len(rtw.observations) = 1
        /\ rtw.sum = Latest.cost
        /\ rtw.min = Latest.cost
        /\ rtw.max = Latest.cost

\* C5: for TAU > 0, when every timestamp exceeds the previous one by more
\* than TAU, after each put observations holds exactly the observation just
\* put and sum = min = max = its cost.
C5_FarApart ==
    (Constructed /\ rtw.TAU > 0 /\ Len(hist) >= 1 /\ FarApart(hist, rtw.TAU)) =>
        /\ rtw.observations = <<Latest>>
        /\ rtw.sum = Latest.cost
        /\ rtw.min = Latest.cost
        /\ rtw.max = Latest.cost

\* C6: with TAU = 10 the puts (1,1), (5,5), (10,10), (15,15), (30,30) leave,
\* one after the other, (count, sum, min, max) = (1,1,1,1), (2,6,1,5),
\* (3,16,1,10), (2,25,10,15), (1,30,30,30).
C6_RollWindow ==
    \A k \in 1 .. Len(testRollWindow) :
        (rtw.TAU = RollTau /\ hist = SubSeq(testRollWindow, 1, k)) =>
            <<Len(rtw.observations), rtw.sum, rtw.min, rtw.max>> = checkRtw[k]

\* C6 witness: the five puts of the test have been made in the test's order.
C6_Witness ==
    /\ rtw.TAU = RollTau
    /\ hist = testRollWindow
    /\ Len(rtw.observations) = 1

\* C7: a newly constructed RollingTime(TAU), before any put, has TAU equal
\* to the constructor's argument, no observations, sum = 0,
\* min = Number.MAX_VALUE and max = 0.
C7_InitialState ==
    (pc \in {"lib", "reading"} /\ hist = <<>>) =>
        /\ rtw.TAU = tauArg
        /\ rtw.observations = <<>>
        /\ rtw.sum = 0
        /\ rtw.min = MAX_VALUE
        /\ rtw.max = 0

\* C7 witness: a caller has constructed a window of size MaxTau and has not
\* put anything yet.
C7_Witness ==
    /\ pc = "lib"
    /\ hist = <<>>
    /\ tauArg = MaxTau
    /\ rtw.TAU = MaxTau

\* C8: before the first put, neither min nor max equals a cost that a put
\* may insert.
C8_SentinelIsNoCost ==
    (pc \in {"lib", "reading"} /\ hist = <<>>) =>
        /\ rtw.min \notin Costs
        /\ rtw.max \notin Costs

\* C9: for TAU > 0, once a put has returned observations is never empty
\* again, whatever timestamps (sorted or not) and costs are put.
C9_NeverEmptyAgain ==
    (Constructed /\ rtw.TAU > 0 /\ Len(hist) >= 1) =>
        Len(rtw.observations) >= 1

\* C9 witness: puts out of timestamp order, the latest of which evicted
\* everything but itself.
C9_Witness ==
    /\ Constructed /\ rtw.TAU > 0
    /\ ~Sorted(hist)
    /\ Len(pre.observations) >= 2
    /\ Len(rtw.observations) = 1

\* C10: no RollingTime instance with TAU <= 0 ever receives a put, whether
\* a caller or main (from --tau) constructed it.
C10_PositiveTauBeforePut ==
    (Constructed /\ Len(hist) >= 1) => rtw.TAU > 0

\* A line that does not split into exactly two tab-separated fields, or
\* whose timestamp or cost field Number turns into NaN.
Rejected(line) ==
    \/ Len(split(line)) /= 2
    \/ isNaN(Number(split(line)[1]))
    \/ isNaN(Number(split(line)[2]))

\* The entries of out of one kind.
IsRow(entry) == entry.kind = "row"

IsError(entry) == entry.kind = "error"

Rows == SelectSeq(out, IsRow)

\* C12: the k-th input line (counted from 1 over all lines) makes the line
\* handler emit exactly one entry, in input order: a data row when the line
\* was parsed and inserted, else an error message that names k; only
\* inserted lines produce rows.
C12_OneEntryPerLine ==
    (pc \in {"reading", "crashed"}) =>
        /\ Len(out) = curLine + 1
        /\ \A k \in 1 .. curLine :
              k + 1 <= Len(out) =>
                  \/ IsRow(out[k + 1])
                  \/ IsError(out[k + 1]) /\ out[k + 1].line = k
        /\ Len(Rows) = Len(hist)

\* C13: for every line parsed and inserted, the printed row carries that
\* line's timestamp and cost and the window's count, sum, min and max right
\* after the put; so after every put the last element of observations
\* exists and is the observation just put.
C13_RowShowsThePut ==
    (pc \in {"reading", "crashed"} /\ Len(hist) >= 1) =>
        /\ rtw.observations /= <<>>
        /\ rtw.observations[Len(rtw.observations)] = Latest
        /\ Len(Rows) = Len(hist)
        /\ Rows[Len(Rows)] =
               [kind |-> "row",
                timestamp |-> Latest.timestamp, cost |-> Latest.cost,
                count |-> Len(rtw.observations),
                sum |-> rtw.sum, min |-> rtw.min, max |-> rtw.max]

\* The buffer the latest put worked on: what it found, then its observation.
Before == Append(pre.observations, Latest)

\* C14: for TAU > 0 and non-decreasing timestamps, after put(t, c)
\* observations is the earlier buffer followed by (t, c) with the elements
\* of t - TAU >= timestamp removed, order unchanged; the removed elements are
\* a contiguous prefix (of length newStartIndex), none of them has
\* t - timestamp < TAU and no kept element has t - timestamp >= TAU.
C14_EvictsExpiredPrefix ==
    (Constructed /\ rtw.TAU > 0 /\ Sorted(hist) /\ Len(hist) >= 1) =>
        LET t == Latest.timestamp
            Kept(o) == ~(t - rtw.TAU >= o.timestamp)
            n == Len(Before) - Len(rtw.observations)
        IN  /\ rtw.observations = SelectSeq(Before, Kept)
            /\ n >= 0
            /\ rtw.observations = SubSeq(Before, n + 1, Len(Before))
            /\ \A i \in 1 .. n : t - Before[i].timestamp >= rtw.TAU
            /\ \A i \in n + 1 .. Len(Before) : t - Before[i].timestamp < rtw.TAU

\* C14 witness: a put that removed a prefix of two observations and kept
\* only its own.
C14_Witness ==
    /\ Constructed /\ rtw.TAU > 0 /\ Sorted(hist)
    /\ Len(pre.observations) = 2
    /\ rtw.observations = <<Latest>>

\* The least and the greatest of a non-empty finite set of numbers.
Least(S) == CHOOSE x \in S : \A y \in S : x <= y

Greatest(S) == CHOOSE x \in S : \A y \in S : x >= y

\* The reference put: append the observation, drop every element with
\* t - TAU >= timestamp, recompute sum, min and max over what is left, from
\* 0, Number.MAX_VALUE and 0.
referencePut(this, timestamp, cost) ==
    LET Kept(o) == ~(timestamp - this.TAU >= o.timestamp)
        kept == SelectSeq(Append(this.observations,
                                 Observation(timestamp, cost)), Kept)
    IN  [TAU |-> this.TAU,
         observations |-> kept,
         sum |-> SumCost(kept),
         min |-> Least(CostsOf(kept) \cup {MAX_VALUE}),
         max |-> Greatest(CostsOf(kept) \cup {0})]

FastCase ==
    IF pre.observations = <<>>
    THEN pre.TAU > 0
    ELSE Latest.timestamp - pre.TAU < pre.observations[1].timestamp

\* C16: when put(t, c) is called in the case of the fast path, every
\* element already in observations stays in place, (t, c) is appended at the
\* end, sum grows by c, min becomes the lesser of the old min and c, max
\* the greater of the old max and c.
C16_FastPathFrame ==
    (Constructed /\ Len(hist) >= 1 /\ FastCase) =>
        /\ rtw.TAU = pre.TAU
        /\ rtw.observations = Append(pre.observations, Latest)
        /\ rtw.sum = pre.sum + Latest.cost
        /\ rtw.min = (IF Latest.cost < pre.min THEN Latest.cost ELSE pre.min)
        /\ rtw.max = (IF Latest.cost > pre.max THEN Latest.cost ELSE pre.max)

\* C16 witness: the fast path on a buffer of two observations, the new
\* cost below the minimum so far and above no maximum.
C16_Witness ==
    /\ Constructed /\ FastCase
    /\ Len(pre.observations) = 2
    /\ Latest.cost < pre.min
    /\ rtw.min = Latest.cost
    /\ rtw.max = pre.max

\* The latest put repeats the timestamp of the put before it.
Duplicate ==
    /\ Len(hist) >= 2
    /\ Latest.timestamp = hist[Len(hist) - 1].timestamp

\* The latest put evicted nothing: the buffer grew by exactly its
\* observation, the observation of the put before it is still next to it,
\* and sum, min and max are accumulated over all that is retained.
GrewByOne ==
    /\ rtw.observations = Append(pre.observations, Latest)
    /\ Len(rtw.observations) >= 2
    /\ rtw.observations[Len(rtw.observations) - 1] = hist[Len(hist) - 1]
    /\ OnlyOver(rtw.observations)

\* C17, as stated: for TAU > 0, a put whose timestamp equals that of the
\* put right before it evicts nothing: observations grows by exactly one,
\* both observations of that timestamp are retained and sum, min and max
\* cover all retained observations.
C17_DuplicateEvictsNothing ==
    (Constructed /\ rtw.TAU > 0 /\ Duplicate) => GrewByOne

\* C17, amended: the same for TAU > 0 and non-decreasing timestamps.
C17_SortedDuplicateEvictsNothing ==
    (Constructed /\ rtw.TAU > 0 /\ Sorted(hist) /\ Duplicate) => GrewByOne

\* C17 witness: in sorted input, a put evicted an older observation and the
\* next put repeated its timestamp.
C17_Witness ==
    /\ Constructed /\ rtw.TAU > 0 /\ Sorted(hist) /\ Duplicate
    /\ Len(hist) = 3
    /\ hist[1].timestamp < hist[2].timestamp
    /\ rtw.observations = <<hist[2], hist[3]>>

\* The timestamps of the puts so far, in call order.
TimesOf(h) == [i \in 1 .. Len(h) |-> h[i].timestamp]

\* The largest timestamp ever put.
LargestPut == Greatest({hist[i].timestamp : i \in DOMAIN hist})

\* observations holds an element that a true sliding window over the
\* largest timestamp would have dropped.
Stale ==
    \E i \in DOMAIN rtw.observations :
        LargestPut - rtw.observations[i].timestamp >= rtw.TAU

\* C18: with timestamps out of order and TAU > 0 the evictions differ from
\* a sliding window's. After the puts at 3, 1 (TAU = 2) observations holds
\* an element o with largest timestamp - o.timestamp >= TAU. After the puts
\* at 1, 2, 1, 3 (TAU = 2) slice(newStartIndex) has dropped the second
\* observation, which had not expired, and kept the third, which had, while
\* sum, min and max were accumulated over the second and the fourth: they
\* are not those of the elements of observations.
C18_OutOfOrderEviction ==
    /\ (rtw.TAU = 2 /\ TimesOf(hist) = <<3, 1>>) => Stale
    /\ (rtw.TAU = 2 /\ TimesOf(hist) = <<1, 2, 1, 3>>) =>
           /\ rtw.observations = <<hist[3], hist[4]>>
           /\ OnlyOver(<<hist[2], hist[4]>>)
           /\ (hist[2].cost /= hist[3].cost =>
                   rtw.sum /= SumCost(rtw.observations))

\* C18 witness: the state after the puts at 1, 2, 1, 3, where an expired
\* element is held and sum and min are not those of observations.
C18_Witness ==
    /\ rtw.TAU = 2
    /\ TimesOf(hist) = <<1, 2, 1, 3>>
    /\ Stale
    /\ rtw.sum /= SumCost(rtw.observations)
    /\ rtw.min /= LeastCost(rtw.observations)

\* C19: put raises no error for numeric timestamp and cost in any
\* reachable state (empty or populated buffer, sorted or unsorted input,
\* any TAU): the read of observations[0] finds an element, the observation
\* being appended before the comparison. No caller of the class has seen
\* a put fail.
C19_PutNeverThrows ==
    /\ Constructed =>
           \A timestamp \in Timestamps, cost \in Costs :
               ~putThrows(rtw, timestamp, cost)
    /\ pc = "crashed" => curLine > 0

\* C19 witness: a window with TAU <= 0, whose buffer every put empties,
\* has taken puts out of timestamp order on its empty buffer.
C19_Witness ==
    /\ pc = "lib"
    /\ rtw.TAU <= 0
    /\ Len(hist) = MaxPuts
    /\ ~Sorted(hist)
    /\ rtw.observations = <<>>

\* C20: for non-decreasing input timestamps, in every reachable state the
\* timestamps of observations are non-decreasing in buffer order and the
\* buffer is in insertion order: it is the latest puts, as they were made.
C20_BufferInInsertionOrder ==
    (Constructed /\ Sorted(hist)) =>
        /\ Sorted(rtw.observations)
        /\ \E k \in 1 .. Len(hist) + 1 :
               rtw.observations = SubSeq(hist, k, Len(hist))

\* C20 witness: three puts at increasing timestamps, the first of them
\* evicted, the other two in the buffer in the order they were put.
C20_Witness ==
    /\ Constructed
    /\ Len(hist) = 3
    /\ hist[1].timestamp < hist[2].timestamp
    /\ hist[2].timestamp < hist[3].timestamp
    /\ hist[2].cost > hist[3].cost
    /\ rtw.observations = <<hist[2], hist[3]>>

\* Each timestamp is above the one put before it.
Increasing(h) == \A i \in 1 .. Len(h) - 1 : h[i].timestamp < h[i + 1].timestamp

\* The observation o is an element of the buffer obs.
Holds(obs, o) == \E i \in DOMAIN obs : obs[i] = o

\* C21: for integer TAU >= 1 and strictly increasing integer timestamps,
\* observations.length <= TAU after every put, however many puts have been
\* made, and an observation that was put and is no longer in observations
\* is not in observations after any later step.
C21_BufferBounded ==
    /\ []((Constructed /\ rtw.TAU >= 1 /\ Increasing(hist)) =>
              Len(rtw.observations) <= rtw.TAU)
    /\ [][(Constructed /\ rtw.TAU >= 1 /\ Increasing(hist')) =>
              \A i \in DOMAIN hist :
                  ~Holds(rtw.observations, hist[i]) =>
                      ~Holds(rtw'.observations, hist[i])]_vars

\* C21 witness: MaxGenerate puts into a window of size 2, which holds
\* exactly 2 observations now and has evicted before the latest put and
\* again in it.
C21_Witness ==
    /\ pc = "lib" /\ rtw.TAU = 2 /\ Increasing(hist)
    /\ Len(hist) = MaxGenerate
    /\ Len(rtw.observations) = rtw.TAU
    /\ Len(pre.observations) = rtw.TAU
    /\ ~Holds(pre.observations, hist[1])
    /\ ~Holds(rtw.observations, hist[Len(hist) - 2])

====
